---- MODULE Spec2Model ----
(***************************************************************************)
(* Model of the node graph engine: BaseNode connection bookkeeping         *)
(* (core/base_node.cpp), NodeGraph membership, connection management,      *)
(* scheduling and cycle detection (core/node_graph.cpp), and the node      *)
(* variants' port counts, readiness and process() (core/input_node.cpp,    *)
(* core/output_node.cpp, nodes/*.cpp).                                     *)
(*                                                                         *)
(* A node pointer is modelled by the node's id (ids are never reused).     *)
(* An image (cv::Mat) is modelled by its channel count; 0 is the empty Mat.*)
(* A std::unordered_map<int, X> with an absent key is modelled by a total  *)
(* function holding the value its reader returns for an absent key.        *)
(***************************************************************************)
EXTENDS Integers, Sequences, FiniteSets, TLC

\* ---------------------------------------------------------------- bounds
\* number of nodes ever constructed in the process
MaxNodes == 3

\* ---------------------------------------------------------------- constants
\* nullptr
NULL == -1
\* ChannelSplitterNode::getOutputCount before the first processing
DefaultSplitterOutputs == 3
\* BlendNode::getInputCount
BlendInputs == 2

NodeIds == 0 .. (MaxNodes - 1)
\* ids a caller may pass: every constructed id and one id never constructed
IdArgs == 0 .. MaxNodes
\* port indices a caller may pass, including negative and too large ones
OutPortArgs == -1 .. DefaultSplitterOutputs
InPortArgs == -1 .. BlendInputs
\* port indices that can ever be keys of m_inputs / m_outputs / m_outputValues
InPorts == 0 .. (BlendInputs - 1)
OutPorts == 0 .. (DefaultSplitterOutputs - 1)

\* cv::Mat() (empty image)
EmptyMat == 0
\* channel counts of the non-empty images a caller injects
ImageChannels == {1}
\* channel count of every image ChannelSplitterNode::process writes
MergedChannels == 3
Mats == {EmptyMat, MergedChannels} \cup ImageChannels

Kinds == {"InputNode", "OutputNode", "BrightnessContrastNode",
          "BlendNode", "ChannelSplitterNode", "NoiseGenerationNode"}
\* the variant of the n-th node the caller constructs
Variants == <<"InputNode", "ChannelSplitterNode", "BrightnessContrastNode",
              "OutputNode", "BlendNode">>
VariantAt(n) == Variants[(n % Len(Variants)) + 1]
\* kind of a slot whose node was never constructed or has been deleted
Freed == "freed"

\* { nullptr, -1 } returned by getInputConnection for an absent key
NoConnection == <<NULL, -1>>

VARIABLES
    m_nodes,         \* NodeGraph::m_nodes, the owned nodes in insertion order
    s_nextId,        \* BaseNode::s_nextId
    m_id,            \* BaseNode::m_id of every node constructed, in construction order
    kind,            \* dynamic type of each constructed node
    m_inputs,        \* BaseNode::m_inputs per node: port -> <<source, port>>
    m_outputs,       \* BaseNode::m_outputs per node: port -> Seq(<<target, port>>)
    m_outputValues,  \* BaseNode::m_outputValues per node: port -> Mat
    m_image,         \* InputNode::m_image / OutputNode::m_image
    m_channelCount,  \* ChannelSplitterNode::m_channelCount
    blendNode,       \* a BlendNode seen at pixel level: m_blendMode, m_alpha, the
                     \* two input images and the image stored on output 0
    crashed          \* the process was terminated (uncaught exception, fault)

vars == <<m_nodes, s_nextId, m_id, kind, m_inputs, m_outputs, m_outputValues,
          m_image, m_channelCount, blendNode, crashed>>

tables == <<m_inputs, m_outputs>>

\* ---------------------------------------------------------------- helpers
Range(s) == {s[k] : k \in 1 .. Len(s)}

IndexOf(s, x) == CHOOSE k \in 1 .. Len(s) : s[k] = x /\ \A j \in 1 .. (k - 1) : s[j] # x

\* s without its k-th element (std::vector::erase of one iterator)
RemoveAt(s, k) == [j \in 1 .. (Len(s) - 1) |-> IF j < k THEN s[j] ELSE s[j + 1]]

NoInputs == [i \in InPorts |-> NoConnection]
NoOutputs == [o \in OutPorts |-> <<>>]
NoValues == [o \in OutPorts |-> EmptyMat]

\* ---------------------------------------------------------------- node variants
getInputCount(n) ==
    CASE kind[n] = "InputNode" -> 0
      [] kind[n] = "OutputNode" -> 1
      [] kind[n] = "BrightnessContrastNode" -> 1
      [] kind[n] = "BlendNode" -> BlendInputs
      [] kind[n] = "ChannelSplitterNode" -> 1
      [] kind[n] = "NoiseGenerationNode" -> 0
      [] OTHER -> 0

getOutputCountOf(k, cc) ==
    CASE k = "InputNode" -> 1
      [] k = "OutputNode" -> 0
      [] k = "BrightnessContrastNode" -> 1
      [] k = "BlendNode" -> 1
      [] k = "ChannelSplitterNode" -> (IF cc > 0 THEN cc ELSE DefaultSplitterOutputs)
      [] k = "NoiseGenerationNode" -> 1
      [] OTHER -> 0

getOutputCount(n) == getOutputCountOf(kind[n], m_channelCount[n])

\* ---------------------------------------------------------------- BaseNode
getInputConnectionIn(ins, n, i) ==
    IF i \in DOMAIN ins[n] THEN ins[n][i] ELSE NoConnection

getInputConnection(n, i) == getInputConnectionIn(m_inputs, n, i)

getConnectedNodesIn(outs, n, o) ==
    IF o \in DOMAIN outs[n] THEN outs[n][o] ELSE <<>>

getConnectedNodes(n, o) == getConnectedNodesIn(m_outputs, n, o)

\* connectOutput that refuses an output port that already has a target
connectOutputNoFanOut(ins, outs, src, outputIndex, tgt, inputIndex) ==
    IF \/ outputIndex < 0 \/ outputIndex >= getOutputCount(src)
       \/ inputIndex < 0 \/ inputIndex >= getInputCount(tgt)
    THEN [ret |-> FALSE, ins |-> ins, outs |-> outs]
    ELSE IF getInputConnectionIn(ins, tgt, inputIndex)[1] # NULL
    THEN [ret |-> FALSE, ins |-> ins, outs |-> outs]
    ELSE IF outs[src][outputIndex] # <<>>
    THEN [ret |-> FALSE, ins |-> ins, outs |-> outs]
    ELSE [ret |-> TRUE,
          outs |-> [outs EXCEPT ![src][outputIndex] = Append(@, <<tgt, inputIndex>>)],
          ins |-> [ins EXCEPT ![tgt][inputIndex] = <<src, outputIndex>>]]

connectOutput(ins, outs, src, outputIndex, tgt, inputIndex) ==
    IF \/ outputIndex < 0 \/ outputIndex >= getOutputCount(src)
       \/ inputIndex < 0 \/ inputIndex >= getInputCount(tgt)
    THEN [ret |-> FALSE, ins |-> ins, outs |-> outs]
    ELSE IF getInputConnectionIn(ins, tgt, inputIndex)[1] # NULL
    THEN [ret |-> FALSE, ins |-> ins, outs |-> outs]
    ELSE [ret |-> TRUE,
          outs |-> [outs EXCEPT ![src][outputIndex] = Append(@, <<tgt, inputIndex>>)],
          ins |-> [ins EXCEPT ![tgt][inputIndex] = <<src, outputIndex>>]]

\* disconnectOutput without targetNode->m_inputs.erase(inputIndex)
disconnectOutputKeepsInput(ins, outs, src, outputIndex, tgt, inputIndex) ==
    IF outputIndex \notin DOMAIN outs[src]
    THEN [ret |-> FALSE, ins |-> ins, outs |-> outs]
    ELSE LET connections == outs[src][outputIndex] IN
         IF <<tgt, inputIndex>> \notin Range(connections)
         THEN [ret |-> FALSE, ins |-> ins, outs |-> outs]
         ELSE [ret |-> TRUE,
               outs |-> [outs EXCEPT ![src][outputIndex] =
                            RemoveAt(@, IndexOf(connections, <<tgt, inputIndex>>))],
               ins |-> ins]

disconnectOutput(ins, outs, src, outputIndex, tgt, inputIndex) ==
    IF outputIndex \notin DOMAIN outs[src]
    THEN [ret |-> FALSE, ins |-> ins, outs |-> outs]
    ELSE LET connections == outs[src][outputIndex] IN
         IF <<tgt, inputIndex>> \notin Range(connections)
         THEN [ret |-> FALSE, ins |-> ins, outs |-> outs]
         ELSE [ret |-> TRUE,
               outs |-> [outs EXCEPT ![src][outputIndex] =
                            RemoveAt(@, IndexOf(connections, <<tgt, inputIndex>>))],
               ins |-> [ins EXCEPT ![tgt][inputIndex] = NoConnection]]

\* ---------------------------------------------------------------- NodeGraph queries
containsNode(nodeId) == \E k \in 1 .. Len(m_nodes) : m_nodes[k] = nodeId

\* getNode that dereferences the iterator without the end() test
getNodeUnchecked(nodeId) == nodeId

getNode(nodeId) == IF containsNode(nodeId) THEN nodeId ELSE NULL

getNodeCount == Len(m_nodes)

\* ---------------------------------------------------------------- cycle detection
\* the targets detectCycle visits from node n, in visiting order: ports
\* 0 .. getOutputCount()-1, and within a port the vector order
RECURSIVE outgoingFrom(_, _, _)
outgoingFrom(outs, n, i) ==
    IF i >= getOutputCount(n) THEN <<>>
    ELSE LET connections == getConnectedNodesIn(outs, n, i) IN
         [k \in 1 .. Len(connections) |-> connections[k][1]]
             \o outgoingFrom(outs, n, i + 1)

\* st = [visited, recursionStack, found, visits]; the two maps of bool are the
\* sets of ids mapped to true, visits lists the nodes detectCycle has marked
RECURSIVE detectCycle(_, _, _)
RECURSIVE scanConnections(_, _, _, _, _)
detectCycle(outs, nodeId, st) ==
    IF getNode(nodeId) = NULL THEN [st EXCEPT !.found = FALSE]
    ELSE scanConnections(outs, nodeId, outgoingFrom(outs, nodeId, 0), 1,
             [visited |-> st.visited \cup {nodeId},
              recursionStack |-> st.recursionStack \cup {nodeId},
              found |-> FALSE,
              visits |-> Append(st.visits, nodeId)])

scanConnections(outs, nodeId, targets, k, st) ==
    IF k > Len(targets)
    THEN [st EXCEPT !.recursionStack = @ \ {nodeId}, !.found = FALSE]
    ELSE LET targetNodeId == targets[k] IN
         IF targetNodeId \notin st.visited
         THEN LET r == detectCycle(outs, targetNodeId, st) IN
              IF r.found THEN r
              ELSE scanConnections(outs, nodeId, targets, k + 1, r)
         ELSE IF targetNodeId \in st.recursionStack
         THEN [st EXCEPT !.found = TRUE]
         ELSE scanConnections(outs, nodeId, targets, k + 1, st)

RECURSIVE containsCyclesFrom(_, _, _)
containsCyclesFrom(outs, k, st) ==
    IF k > Len(m_nodes) THEN FALSE
    ELSE LET nodeId == m_nodes[k] IN
         IF nodeId \notin st.visited
         THEN LET r == detectCycle(outs, nodeId, st) IN
              IF r.found THEN TRUE ELSE containsCyclesFrom(outs, k + 1, r)
         ELSE containsCyclesFrom(outs, k + 1, st)

\* containsCycles on a graph whose m_nodes holds the same nodes in the order nodes
RECURSIVE containsCyclesOrdered(_, _, _, _)
containsCyclesOrdered(nodes, outs, k, st) ==
    IF k > Len(nodes) THEN [st EXCEPT !.found = FALSE]
    ELSE LET nodeId == nodes[k] IN
         IF nodeId \notin st.visited
         THEN LET r == detectCycle(outs, nodeId, st) IN
              IF r.found THEN r ELSE containsCyclesOrdered(nodes, outs, k + 1, r)
         ELSE containsCyclesOrdered(nodes, outs, k + 1, st)

\* a containsCycles call: found is what it returns
containsCyclesRun(nodes, outs) ==
    containsCyclesOrdered(nodes, outs, 1,
        [visited |-> {}, recursionStack |-> {}, found |-> FALSE, visits |-> <<>>])

containsCyclesIn(outs) ==
    containsCyclesFrom(outs, 1, [visited |-> {}, recursionStack |-> {}, found |-> FALSE,
                                 visits |-> <<>>])

containsCycles == containsCyclesIn(m_outputs)

\* ---------------------------------------------------------------- scheduler
\* A source pointer stored in m_inputs whose node has been deleted dangles.
\* connection.first->getId() then reads freed memory: ub[p] is the value read.
sourceId(p, ub) == IF containsNode(p) THEN p ELSE ub[p]

\* hasUnprocessedDependencies that never reports an unprocessed source
hasUnprocessedDependenciesNever(ins, node, processedNodes, ub, i) == "no"

\* "yes" / "no" / "throw" (processedNodes.at() of an id that is not a key)
RECURSIVE hasUnprocessedDependenciesFrom(_, _, _, _, _)
hasUnprocessedDependenciesFrom(ins, node, processedNodes, ub, i) ==
    IF i >= getInputCount(node) THEN "no"
    ELSE LET connection == getInputConnectionIn(ins, node, i) IN
         IF connection[1] # NULL
         THEN LET sourceNodeId == sourceId(connection[1], ub) IN
              IF ~containsNode(sourceNodeId) THEN "throw"
              ELSE IF sourceNodeId \notin processedNodes THEN "yes"
              ELSE hasUnprocessedDependenciesFrom(ins, node, processedNodes, ub, i + 1)
         ELSE hasUnprocessedDependenciesFrom(ins, node, processedNodes, ub, i + 1)

hasUnprocessedDependencies(ins, node, processedNodes, ub) ==
    hasUnprocessedDependenciesFrom(ins, node, processedNodes, ub, 0)

\* one pass of the for loop over m_nodes; st = [result, processedNodes,
\* foundNode, thrown]
RECURSIVE orderPass(_, _, _, _)
orderPass(ins, ub, k, st) ==
    IF k > Len(m_nodes) THEN st
    ELSE LET node == m_nodes[k] IN
         IF node \in st.processedNodes THEN orderPass(ins, ub, k + 1, st)
         ELSE LET d == hasUnprocessedDependencies(ins, node, st.processedNodes, ub) IN
              IF d = "throw" THEN [st EXCEPT !.thrown = TRUE]
              ELSE IF d = "no"
              THEN orderPass(ins, ub, k + 1,
                       [st EXCEPT !.result = Append(@, node),
                                  !.processedNodes = @ \cup {node},
                                  !.foundNode = TRUE])
              ELSE orderPass(ins, ub, k + 1, st)

\* the while loop making one more pass after a pass that appended nothing
RECURSIVE orderLoopRetries(_, _, _)
orderLoopRetries(ins, ub, st) ==
    IF Len(st.result) >= Len(m_nodes) THEN st
    ELSE LET p == orderPass(ins, ub, 1, [st EXCEPT !.foundNode = FALSE]) IN
         LET q == [p EXCEPT !.passes = @ + 1] IN
         IF q.thrown THEN q
         ELSE IF ~q.foundNode
         THEN LET p2 == orderPass(ins, ub, 1, q) IN [p2 EXCEPT !.passes = @ + 1]
         ELSE orderLoopRetries(ins, ub, q)

\* the while loop; passes counts the passes made
RECURSIVE orderLoop(_, _, _)
orderLoop(ins, ub, st) ==
    IF Len(st.result) >= Len(m_nodes) THEN st
    ELSE LET p == orderPass(ins, ub, 1, [st EXCEPT !.foundNode = FALSE]) IN
         LET q == [p EXCEPT !.passes = @ + 1] IN
         IF q.thrown \/ ~q.foundNode THEN q ELSE orderLoop(ins, ub, q)

getProcessingOrderRun(ins, ub) ==
    orderLoop(ins, ub, [result |-> <<>>, processedNodes |-> {}, foundNode |-> FALSE,
                        thrown |-> FALSE, passes |-> 0])

\* the ids read through dangling source pointers matter only where one exists
DanglingSources ==
    {m_inputs[n][i][1] : n \in Range(m_nodes), i \in InPorts}
        \ (Range(m_nodes) \cup {NULL})

NoUB == [p \in {} |-> 0]

\* the order on a graph without dangling pointers
getProcessingOrder == getProcessingOrderRun(m_inputs, NoUB).result

\* ---------------------------------------------------------------- NodeGraph mutators
\* the outcome of a call: return value, diagnostic written to std::cerr and
\* the connection tables it leaves
Outcome(ret, diag, ins, outs) == [ret |-> ret, diag |-> diag, ins |-> ins, outs |-> outs]

\* addNode without the containsNode test
addNodeNoDuplicateTest(node) ==
    IF node = NULL
    THEN [ret |-> FALSE, diag |-> "addNode: Cannot add null node.", nodes |-> m_nodes]
    ELSE [ret |-> TRUE, diag |-> "", nodes |-> Append(m_nodes, node)]

addNodeResult(node) ==
    IF node = NULL
    THEN [ret |-> FALSE, diag |-> "addNode: Cannot add null node.", nodes |-> m_nodes]
    ELSE IF containsNode(node)
    THEN [ret |-> FALSE, diag |-> "addNode: Node already exists.", nodes |-> m_nodes]
    ELSE [ret |-> TRUE, diag |-> "", nodes |-> Append(m_nodes, node)]

\* connectNodes without its own "input already connected" test
connectNodesNoOccupancyTest(sourceNodeId, outputIndex, targetNodeId, inputIndex) ==
    LET sourceNode == getNode(sourceNodeId)
        targetNode == getNode(targetNodeId)
    IN  IF sourceNode = NULL \/ targetNode = NULL
        THEN Outcome(FALSE, "connectNodes: Source or target node not found.",
                     m_inputs, m_outputs)
        ELSE IF \/ outputIndex < 0 \/ outputIndex >= getOutputCount(sourceNode)
                \/ inputIndex < 0 \/ inputIndex >= getInputCount(targetNode)
        THEN Outcome(FALSE, "connectNodes: Invalid output or input index.",
                     m_inputs, m_outputs)
        ELSE LET c == connectOutput(m_inputs, m_outputs, sourceNode, outputIndex,
                                    targetNode, inputIndex) IN
             IF c.ret /\ containsCyclesIn(c.outs)
             THEN LET d == disconnectOutput(c.ins, c.outs, sourceNode, outputIndex,
                                            targetNode, inputIndex) IN
                  Outcome(FALSE, "connectNodes: Cannot create cycle in the graph.",
                          d.ins, d.outs)
             ELSE Outcome(c.ret, "", c.ins, c.outs)

\* connectNodes whose range test forgets the lower bounds
connectNodesNoLowerBound(sourceNodeId, outputIndex, targetNodeId, inputIndex) ==
    LET sourceNode == getNode(sourceNodeId)
        targetNode == getNode(targetNodeId)
    IN  IF sourceNode = NULL \/ targetNode = NULL
        THEN Outcome(FALSE, "connectNodes: Source or target node not found.",
                     m_inputs, m_outputs)
        ELSE IF \/ outputIndex >= getOutputCount(sourceNode)
                \/ inputIndex >= getInputCount(targetNode)
        THEN Outcome(FALSE, "connectNodes: Invalid output or input index.",
                     m_inputs, m_outputs)
        ELSE IF getInputConnection(targetNode, inputIndex)[1] # NULL
        THEN Outcome(FALSE, "connectNodes: Input already connected.",
                     m_inputs, m_outputs)
        ELSE LET c == connectOutput(m_inputs, m_outputs, sourceNode, outputIndex,
                                    targetNode, inputIndex) IN
             IF c.ret /\ containsCyclesIn(c.outs)
             THEN LET d == disconnectOutput(c.ins, c.outs, sourceNode, outputIndex,
                                            targetNode, inputIndex) IN
                  Outcome(FALSE, "connectNodes: Cannot create cycle in the graph.",
                          d.ins, d.outs)
             ELSE Outcome(c.ret, "", c.ins, c.outs)

\* connectNodes without the containsCycles test and its rollback
connectNodesInNoCycleTest(ins, outs, sourceNodeId, outputIndex, targetNodeId, inputIndex) ==
    LET sourceNode == getNode(sourceNodeId)
        targetNode == getNode(targetNodeId)
    IN  IF sourceNode = NULL \/ targetNode = NULL
        THEN Outcome(FALSE, "connectNodes: Source or target node not found.", ins, outs)
        ELSE IF \/ outputIndex < 0 \/ outputIndex >= getOutputCount(sourceNode)
                \/ inputIndex < 0 \/ inputIndex >= getInputCount(targetNode)
        THEN Outcome(FALSE, "connectNodes: Invalid output or input index.", ins, outs)
        ELSE IF getInputConnectionIn(ins, targetNode, inputIndex)[1] # NULL
        THEN Outcome(FALSE, "connectNodes: Input already connected.", ins, outs)
        ELSE LET c == connectOutput(ins, outs, sourceNode, outputIndex,
                                    targetNode, inputIndex) IN
             Outcome(c.ret, "", c.ins, c.outs)

\* connectNodes called when the connection tables are ins, outs
connectNodesIn(ins, outs, sourceNodeId, outputIndex, targetNodeId, inputIndex) ==
    LET sourceNode == getNode(sourceNodeId)
        targetNode == getNode(targetNodeId)
    IN  IF sourceNode = NULL \/ targetNode = NULL
        THEN Outcome(FALSE, "connectNodes: Source or target node not found.", ins, outs)
        ELSE IF \/ outputIndex < 0 \/ outputIndex >= getOutputCount(sourceNode)
                \/ inputIndex < 0 \/ inputIndex >= getInputCount(targetNode)
        THEN Outcome(FALSE, "connectNodes: Invalid output or input index.", ins, outs)
        ELSE IF getInputConnectionIn(ins, targetNode, inputIndex)[1] # NULL
        THEN Outcome(FALSE, "connectNodes: Input already connected.", ins, outs)
        ELSE LET c == connectOutput(ins, outs, sourceNode, outputIndex,
                                    targetNode, inputIndex) IN
             IF c.ret /\ containsCyclesIn(c.outs)
             THEN LET d == disconnectOutput(c.ins, c.outs, sourceNode, outputIndex,
                                            targetNode, inputIndex) IN
                  Outcome(FALSE, "connectNodes: Cannot create cycle in the graph.",
                          d.ins, d.outs)
             ELSE Outcome(c.ret, "", c.ins, c.outs)

connectNodesResult(sourceNodeId, outputIndex, targetNodeId, inputIndex) ==
    connectNodesIn(m_inputs, m_outputs, sourceNodeId, outputIndex, targetNodeId, inputIndex)

\* disconnectNodes that does not look at what disconnectOutput returns
disconnectNodesIgnoresResult(sourceNodeId, outputIndex, targetNodeId, inputIndex) ==
    LET sourceNode == getNode(sourceNodeId)
        targetNode == getNode(targetNodeId)
    IN  IF sourceNode = NULL \/ targetNode = NULL
        THEN Outcome(FALSE, "disconnectNodes: Source or target node not found.",
                     m_inputs, m_outputs)
        ELSE LET d == disconnectOutput(m_inputs, m_outputs, sourceNode, outputIndex,
                                       targetNode, inputIndex) IN
             Outcome(TRUE, "", d.ins, d.outs)

disconnectNodesResult(sourceNodeId, outputIndex, targetNodeId, inputIndex) ==
    LET sourceNode == getNode(sourceNodeId)
        targetNode == getNode(targetNodeId)
    IN  IF sourceNode = NULL \/ targetNode = NULL
        THEN Outcome(FALSE, "disconnectNodes: Source or target node not found.",
                     m_inputs, m_outputs)
        ELSE LET d == disconnectOutput(m_inputs, m_outputs, sourceNode, outputIndex,
                                       targetNode, inputIndex) IN
             Outcome(d.ret, "", d.ins, d.outs)

\* removeNode, first loop body: node->disconnectOutput for each entry of the
\* copy of the vector of one output port
RECURSIVE disconnectTargets(_, _, _, _, _)
disconnectTargets(t, node, outputIndex, connections, k) ==
    IF k > Len(connections) THEN t
    ELSE LET d == disconnectOutput(t.ins, t.outs, node, outputIndex,
                                   connections[k][1], connections[k][2]) IN
         disconnectTargets([ins |-> d.ins, outs |-> d.outs], node, outputIndex,
                           connections, k + 1)

\* removeNode, first loop: output ports 0 .. getOutputCount()-1
RECURSIVE disconnectAllOutputs(_, _, _)
disconnectAllOutputs(t, node, outputIndex) ==
    IF outputIndex >= getOutputCount(node) THEN t
    ELSE disconnectAllOutputs(
             disconnectTargets(t, node, outputIndex,
                               getConnectedNodesIn(t.outs, node, outputIndex), 1),
             node, outputIndex + 1)

\* removeNode, second loop: input ports 0 .. getInputCount()-1; a call through
\* a dangling source pointer changes no table of a live node
RECURSIVE disconnectAllInputs(_, _, _)
disconnectAllInputs(t, node, inputIndex) ==
    IF inputIndex >= getInputCount(node) THEN t
    ELSE LET connection == getInputConnectionIn(t.ins, node, inputIndex) IN
         IF connection[1] # NULL /\ containsNode(connection[1])
         THEN LET d == disconnectOutput(t.ins, t.outs, connection[1], connection[2],
                                        node, inputIndex) IN
              disconnectAllInputs([ins |-> d.ins, outs |-> d.outs], node, inputIndex + 1)
         ELSE disconnectAllInputs(t, node, inputIndex + 1)

\* the tables removeNode leaves in the surviving nodes; the deleted node's
\* own storage is released
removeNodeTables(node) ==
    LET t == disconnectAllInputs(
                 disconnectAllOutputs([ins |-> m_inputs, outs |-> m_outputs], node, 0),
                 node, 0)
    IN  [ins |-> [t.ins EXCEPT ![node] = NoInputs],
         outs |-> [t.outs EXCEPT ![node] = NoOutputs]]

\* removeNode calls disconnectOutput through a dangling pointer
removeDerefsDangling(node) ==
    \E i \in 0 .. (getInputCount(node) - 1) :
        LET connection == getInputConnection(node, i) IN
        connection[1] # NULL /\ ~containsNode(connection[1])

\* ---------------------------------------------------------------- readiness and process()
\* outcome of a virtual call through a dangling pointer that faults
Fault == -2

\* ps = [vals, img, cc, calls, crashed]: m_outputValues, m_image and
\* m_channelCount of all nodes during a run, the process() calls made so far,
\* and whether the run faulted
getOutputValueIn(vals, n, outputIndex) ==
    IF outputIndex \in DOMAIN vals[n] THEN vals[n][outputIndex] ELSE EmptyMat

getOutputValue(n, outputIndex) == getOutputValueIn(m_outputValues, n, outputIndex)

\* connection.first->getOutputValue(connection.second); through a dangling
\* pointer the read returns ubv[source]
readInput(ps, n, i, ubv) ==
    LET connection == getInputConnection(n, i) IN
    IF containsNode(connection[1])
    THEN getOutputValueIn(ps.vals, connection[1], connection[2])
    ELSE ubv[connection[1]]

hasValidImageIn(img, n) == img[n] # EmptyMat

\* BaseNode::isReady
baseIsReady(n) ==
    \A i \in 0 .. (getInputCount(n) - 1) : getInputConnection(n, i)[1] # NULL

\* isReady that also asks every source for a non-empty cached output
isReadyInNeedsSourceValue(img, n) ==
    CASE kind[n] = "InputNode" -> hasValidImageIn(img, n)
      [] kind[n] = "OutputNode" ->
             /\ getInputConnection(n, 0)[1] # NULL
             /\ getInputConnection(n, 0)[1] \in DOMAIN m_outputValues
             /\ m_outputValues[getInputConnection(n, 0)[1]][getInputConnection(n, 0)[2]]
                    # EmptyMat
      [] OTHER ->
             \A i \in 0 .. (getInputCount(n) - 1) :
                 /\ getInputConnection(n, i)[1] # NULL
                 /\ getInputConnection(n, i)[1] \in DOMAIN m_outputValues
                 /\ m_outputValues[getInputConnection(n, i)[1]][getInputConnection(n, i)[2]]
                        # EmptyMat

isReadyIn(img, n) ==
    CASE kind[n] = "InputNode" -> hasValidImageIn(img, n)
      [] kind[n] = "OutputNode" -> getInputConnection(n, 0)[1] # NULL
      [] OTHER -> baseIsReady(n)

isReady(n) == isReadyIn(m_image, n)

InputNodeProcess(ps, n) ==
    IF ~hasValidImageIn(ps.img, n) THEN ps
    ELSE [ps EXCEPT !.vals[n][0] = ps.img[n]]

OutputNodeProcess(ps, n, ubv) ==
    IF ~isReadyIn(ps.img, n) THEN ps
    ELSE LET inputImage == readInput(ps, n, 0, ubv) IN
         IF inputImage = Fault THEN [ps EXCEPT !.crashed = TRUE]
         ELSE IF inputImage = EmptyMat THEN ps
         ELSE [ps EXCEPT !.img[n] = inputImage]

\* BrightnessContrastNode::process publishing an empty image when not ready
BrightnessContrastNodeProcessClears(ps, n, ubv) ==
    IF ~isReadyIn(ps.img, n) THEN [ps EXCEPT !.vals[n][0] = EmptyMat]
    ELSE LET inputImage == readInput(ps, n, 0, ubv) IN
         IF inputImage = Fault THEN [ps EXCEPT !.crashed = TRUE]
         ELSE IF inputImage = EmptyMat THEN ps
         ELSE [ps EXCEPT !.vals[n][0] = inputImage]

BrightnessContrastNodeProcess(ps, n, ubv) ==
    IF ~isReadyIn(ps.img, n) THEN ps
    ELSE LET inputImage == readInput(ps, n, 0, ubv) IN
         IF inputImage = Fault THEN [ps EXCEPT !.crashed = TRUE]
         ELSE IF inputImage = EmptyMat THEN ps
         ELSE [ps EXCEPT !.vals[n][0] = inputImage]

\* cv::addWeighted gives the output the channel count of inputImage1
BlendNodeProcess(ps, n, ubv) ==
    IF ~isReadyIn(ps.img, n) THEN ps
    ELSE LET inputImage1 == readInput(ps, n, 0, ubv) IN
         IF inputImage1 = Fault THEN [ps EXCEPT !.crashed = TRUE]
         ELSE LET inputImage2 == readInput(ps, n, 1, ubv) IN
              IF inputImage2 = Fault THEN [ps EXCEPT !.crashed = TRUE]
              ELSE IF inputImage1 = EmptyMat \/ inputImage2 = EmptyMat THEN ps
              ELSE [ps EXCEPT !.vals[n][0] = inputImage1]

\* every output written is a merge of three planes
ChannelSplitterNodeProcess(ps, n, ubv) ==
    IF ~isReadyIn(ps.img, n) THEN ps
    ELSE LET inputImage == readInput(ps, n, 0, ubv) IN
         IF inputImage = Fault THEN [ps EXCEPT !.crashed = TRUE]
         ELSE IF inputImage = EmptyMat THEN ps
         ELSE [ps EXCEPT !.cc[n] = inputImage,
                         !.vals[n] = [o \in OutPorts |->
                                         IF o < inputImage THEN MergedChannels ELSE ps.vals[n][o]]]

\* a node constructed with positive dimensions publishes a CV_8UC3 image
NoiseGenerationNodeProcess(ps, n) == [ps EXCEPT !.vals[n][0] = MergedChannels]

process(ps, n, ubv) ==
    CASE kind[n] = "InputNode" -> InputNodeProcess(ps, n)
      [] kind[n] = "OutputNode" -> OutputNodeProcess(ps, n, ubv)
      [] kind[n] = "BrightnessContrastNode" -> BrightnessContrastNodeProcess(ps, n, ubv)
      [] kind[n] = "BlendNode" -> BlendNodeProcess(ps, n, ubv)
      [] kind[n] = "ChannelSplitterNode" -> ChannelSplitterNodeProcess(ps, n, ubv)
      [] kind[n] = "NoiseGenerationNode" -> NoiseGenerationNodeProcess(ps, n)
      [] OTHER -> ps

\* processGraph looping over m_nodes instead of processingOrder
RECURSIVE processAllByInsertion(_, _, _, _)
processAllByInsertion(ps, processingOrder, k, ubv) ==
    IF k > Len(m_nodes) \/ ps.crashed THEN ps
    ELSE LET node == m_nodes[k] IN
         IF isReadyIn(ps.img, node)
         THEN processAllByInsertion(process([ps EXCEPT !.calls = Append(@, node)], node, ubv),
                                    processingOrder, k + 1, ubv)
         ELSE processAllByInsertion(ps, processingOrder, k + 1, ubv)

\* processGraph returning at the first node that is not ready
RECURSIVE processAllAbortsOnNotReady(_, _, _, _)
processAllAbortsOnNotReady(ps, processingOrder, k, ubv) ==
    IF k > Len(processingOrder) \/ ps.crashed THEN ps
    ELSE LET node == processingOrder[k] IN
         IF isReadyIn(ps.img, node)
         THEN processAllAbortsOnNotReady(
                  process([ps EXCEPT !.calls = Append(@, node)], node, ubv),
                  processingOrder, k + 1, ubv)
         ELSE ps

\* processGraph that leaves out a node whose output 0 is already cached
RECURSIVE processAllSkipsCached(_, _, _, _)
processAllSkipsCached(ps, processingOrder, k, ubv) ==
    IF k > Len(processingOrder) \/ ps.crashed THEN ps
    ELSE LET node == processingOrder[k] IN
         IF isReadyIn(ps.img, node) /\ ps.vals[node][0] = EmptyMat
         THEN processAllSkipsCached(
                  process([ps EXCEPT !.calls = Append(@, node)], node, ubv),
                  processingOrder, k + 1, ubv)
         ELSE processAllSkipsCached(ps, processingOrder, k + 1, ubv)

\* the for loop of processGraph over processingOrder
RECURSIVE processAll(_, _, _, _)
processAll(ps, processingOrder, k, ubv) ==
    IF k > Len(processingOrder) \/ ps.crashed THEN ps
    ELSE LET node == processingOrder[k] IN
         IF isReadyIn(ps.img, node)
         THEN processAll(process([ps EXCEPT !.calls = Append(@, node)], node, ubv),
                         processingOrder, k + 1, ubv)
         ELSE processAll(ps, processingOrder, k + 1, ubv)

\* ---------------------------------------------------------------- BlendNode at pixel level
\* An image is one CV_8U sample; alpha is m_alpha / AlphaDen.
\* denominator of the alpha values a caller passes
AlphaDen == 2
\* largest value of a CV_8U sample
MaxPixel == 255
Pixels == {0, 100, MaxPixel}
\* output 0 before the first process()
NoPixel == -1

BlendModes == {"NORMAL", "ADD", "MULTIPLY", "SCREEN", "OVERLAY", "DARKEN", "LIGHTEN",
               "DIFFERENCE"}

\* the graph-level specifications hold no pixel-level BlendNode
NoBlendNode == [m_blendMode |-> "NORMAL", m_alpha |-> 0, inputImage1 |-> 0,
                inputImage2 |-> 0, outputImage |-> NoPixel]

\* num / den rounded to an integer; a tie is rounded to either neighbour
\* (cvRound rounds half to even, the vectorised and the float paths need not)
cvRound(num, den) ==
    LET q == num \div den
        r == num % den
    IN  IF 2 * r < den THEN {q} ELSE IF 2 * r > den THEN {q + 1} ELSE {q, q + 1}

\* saturate_cast<uchar>
saturate(x) == IF x < 0 THEN 0 ELSE IF x > MaxPixel THEN MaxPixel ELSE x

\* cv::addWeighted(src1, w1 / den, src2, w2 / den, 0.0, dst) on CV_8U samples
addWeighted(src1, w1, src2, w2, den) ==
    {saturate(x) : x \in cvRound(src1 * w1 + src2 * w2, den)}

\* double BlendNode::validateAlpha, on numerators
validateAlpha(alpha) ==
    IF alpha < 0 THEN 0 ELSE IF alpha > AlphaDen THEN AlphaDen ELSE alpha

\* each apply...Blend gives the set of samples dst may hold
applyNormalBlend(src1, src2, alpha) ==
    addWeighted(src1, AlphaDen - alpha, src2, alpha, AlphaDen)

applyAddBlend(src1, src2, alpha) ==
    {IF d < MaxPixel THEN d ELSE MaxPixel :
        d \in addWeighted(src1, AlphaDen, src2, alpha, AlphaDen)}

applyMultiplyBlend(src1, src2, alpha) ==
    UNION {{saturate(x) : x \in cvRound(src1 * blendFactor, MaxPixel)} :
        blendFactor \in addWeighted(src2, alpha, MaxPixel, AlphaDen - alpha, AlphaDen)}

applyScreenBlend(src1, src2, alpha) ==
    {saturate(x) :
        x \in cvRound(MaxPixel * MaxPixel * AlphaDen
                        - (MaxPixel - src1) * alpha * (MaxPixel - src2),
                      MaxPixel * AlphaDen)}

applyOverlayBlend(src1, src2, alpha) ==
    IF 2 * src1 < MaxPixel
    THEN {saturate(x) :
             x \in cvRound(src1 * (2 * alpha * src2 + MaxPixel * (AlphaDen - alpha)),
                           MaxPixel * AlphaDen)}
    ELSE {saturate(x) :
             x \in cvRound(MaxPixel * MaxPixel * AlphaDen
                             - (2 * src1 - MaxPixel) * alpha * (2 * src2 - MaxPixel),
                           MaxPixel * AlphaDen)}

applyDarkenBlend(src1, src2, alpha) ==
    {IF src1 < adjustedSrc2 THEN src1 ELSE adjustedSrc2 :
        adjustedSrc2 \in addWeighted(src2, alpha, src1, AlphaDen - alpha, AlphaDen)}

applyLightenBlend(src1, src2, alpha) ==
    {IF src1 > adjustedSrc2 THEN src1 ELSE adjustedSrc2 :
        adjustedSrc2 \in addWeighted(src2, alpha, src1, AlphaDen - alpha, AlphaDen)}

applyDifferenceBlend(src1, src2, alpha) ==
    {IF src1 > adjustedSrc2 THEN src1 - adjustedSrc2 ELSE adjustedSrc2 - src1 :
        adjustedSrc2 \in addWeighted(src2, alpha, src1, AlphaDen - alpha, AlphaDen)}

\* the switch of BlendNode::process
applyBlendMode(blendMode, src1, src2, alpha) ==
    CASE blendMode = "NORMAL" -> applyNormalBlend(src1, src2, alpha)
      [] blendMode = "ADD" -> applyAddBlend(src1, src2, alpha)
      [] blendMode = "MULTIPLY" -> applyMultiplyBlend(src1, src2, alpha)
      [] blendMode = "SCREEN" -> applyScreenBlend(src1, src2, alpha)
      [] blendMode = "OVERLAY" -> applyOverlayBlend(src1, src2, alpha)
      [] blendMode = "DARKEN" -> applyDarkenBlend(src1, src2, alpha)
      [] blendMode = "LIGHTEN" -> applyLightenBlend(src1, src2, alpha)
      [] blendMode = "DIFFERENCE" -> applyDifferenceBlend(src1, src2, alpha)
      [] OTHER -> applyNormalBlend(src1, src2, alpha)

\* BlendNode::process with two non-empty inputs of equal size and type: the
\* samples it may store on output 0. The switch fills outputImage, then
\* cv::addWeighted writes outputImage again.
BlendNodeProcessPixel(node) ==
    LET switched == applyBlendMode(node.m_blendMode, node.inputImage1, node.inputImage2,
                                   node.m_alpha)
    IN  addWeighted(node.inputImage1, AlphaDen - node.m_alpha,
                    node.inputImage2, node.m_alpha, AlphaDen)

\* ---------------------------------------------------------------- actions
Init ==
    /\ m_nodes = <<>>
    /\ s_nextId = 0
    /\ m_id = <<>>
    /\ kind = [n \in NodeIds |-> Freed]
    /\ m_inputs = [n \in NodeIds |-> NoInputs]
    /\ m_outputs = [n \in NodeIds |-> NoOutputs]
    /\ m_outputValues = [n \in NodeIds |-> NoValues]
    /\ m_image = [n \in NodeIds |-> EmptyMat]
    /\ m_channelCount = [n \in NodeIds |-> 0]
    /\ blendNode = NoBlendNode
    /\ crashed = FALSE

\* the process is terminated: no object remains
Terminate ==
    /\ m_nodes' = <<>>
    /\ s_nextId' = 0
    /\ m_id' = <<>>
    /\ kind' = [n \in NodeIds |-> Freed]
    /\ m_inputs' = [n \in NodeIds |-> NoInputs]
    /\ m_outputs' = [n \in NodeIds |-> NoOutputs]
    /\ m_outputValues' = [n \in NodeIds |-> NoValues]
    /\ m_image' = [n \in NodeIds |-> EmptyMat]
    /\ m_channelCount' = [n \in NodeIds |-> 0]
    /\ blendNode' = NoBlendNode
    /\ crashed' = TRUE

\* BaseNode::BaseNode whose initialiser reads s_nextId without incrementing it
BaseNodeKeepsCounter == [m_id |-> s_nextId, s_nextId |-> s_nextId]

\* BaseNode::BaseNode: m_id(s_nextId++)
BaseNode == [m_id |-> s_nextId, s_nextId |-> s_nextId + 1]

\* new K(...) followed by addNode of the new node
AddNewNode(k) ==
    /\ ~crashed
    /\ s_nextId < MaxNodes
    /\ Len(m_id) < MaxNodes
    /\ s_nextId' = BaseNode.s_nextId
    /\ m_id' = Append(m_id, BaseNode.m_id)
    /\ kind' = [kind EXCEPT ![BaseNode.m_id] = k]
    /\ m_nodes' = addNodeResult(BaseNode.m_id).nodes
    /\ UNCHANGED <<m_inputs, m_outputs, m_outputValues, m_image, m_channelCount,
                   blendNode, crashed>>

\* addNode of a null pointer or of a node the graph already owns
addNode(node) ==
    /\ ~crashed
    /\ m_nodes' = addNodeResult(node).nodes
    /\ UNCHANGED <<s_nextId, m_id, blendNode, kind, m_inputs, m_outputs, m_outputValues, m_image,
                   m_channelCount, crashed>>

\* what a removeNode that returns leaves behind
removeNodeResult(nodeId) ==
    IF ~containsNode(nodeId)
    THEN [ret |-> FALSE, diag |-> "removeNode: Node not found.", nodes |-> m_nodes,
          ins |-> m_inputs, outs |-> m_outputs]
    ELSE LET t == removeNodeTables(nodeId) IN
         [ret |-> TRUE, diag |-> "", ins |-> t.ins, outs |-> t.outs,
          nodes |-> RemoveAt(m_nodes, IndexOf(m_nodes, nodeId))]

removeNode(nodeId) ==
    /\ ~crashed
    /\ \E fault \in (IF containsNode(nodeId) /\ removeDerefsDangling(nodeId)
                     THEN BOOLEAN ELSE {FALSE}) :
        IF fault THEN Terminate
        ELSE LET r == removeNodeResult(nodeId) IN
             /\ m_inputs' = r.ins
             /\ m_outputs' = r.outs
             /\ m_nodes' = r.nodes
             /\ IF r.ret
                THEN /\ kind' = [kind EXCEPT ![nodeId] = Freed]
                     /\ m_outputValues' = [m_outputValues EXCEPT ![nodeId] = NoValues]
                     /\ m_image' = [m_image EXCEPT ![nodeId] = EmptyMat]
                     /\ m_channelCount' = [m_channelCount EXCEPT ![nodeId] = 0]
                ELSE UNCHANGED <<kind, m_outputValues, m_image, m_channelCount>>
             /\ UNCHANGED <<s_nextId, m_id, blendNode, crashed>>

connectNodes(sourceNodeId, outputIndex, targetNodeId, inputIndex) ==
    /\ ~crashed
    /\ LET r == connectNodesResult(sourceNodeId, outputIndex, targetNodeId, inputIndex) IN
           /\ m_inputs' = r.ins
           /\ m_outputs' = r.outs
    /\ UNCHANGED <<m_nodes, s_nextId, m_id, blendNode, kind, m_outputValues, m_image, m_channelCount,
                   crashed>>

disconnectNodes(sourceNodeId, outputIndex, targetNodeId, inputIndex) ==
    /\ ~crashed
    /\ LET r == disconnectNodesResult(sourceNodeId, outputIndex, targetNodeId, inputIndex) IN
           /\ m_inputs' = r.ins
           /\ m_outputs' = r.outs
    /\ UNCHANGED <<m_nodes, s_nextId, m_id, blendNode, kind, m_outputValues, m_image, m_channelCount,
                   crashed>>

\* InputNode::setImage on an owned InputNode; it calls process()
setImage(n, image) ==
    /\ ~crashed
    /\ containsNode(n)
    /\ kind[n] = "InputNode"
    /\ IF image = EmptyMat
       THEN UNCHANGED <<m_image, m_outputValues>>
       ELSE /\ m_image' = [m_image EXCEPT ![n] = image]
            /\ m_outputValues' = [m_outputValues EXCEPT ![n][0] = image]
    /\ UNCHANGED <<m_nodes, s_nextId, m_id, blendNode, kind, m_inputs, m_outputs, m_channelCount, crashed>>

\* a processGraph run: the order computed, the process() calls made in call
\* order, and the node state it leaves
processGraphRun(ub, ubv) ==
    LET run == getProcessingOrderRun(m_inputs, ub) IN
    IF run.thrown
    THEN [crashed |-> TRUE, order |-> <<>>, calls |-> <<>>, vals |-> m_outputValues,
          img |-> m_image, cc |-> m_channelCount]
    ELSE LET ps == processAll([vals |-> m_outputValues, img |-> m_image,
                               cc |-> m_channelCount, calls |-> <<>>,
                               crashed |-> FALSE], run.result, 1, ubv) IN
         [crashed |-> ps.crashed, order |-> run.result, calls |-> ps.calls,
          vals |-> ps.vals, img |-> ps.img, cc |-> ps.cc]

\* the values reads through dangling pointers may return
UBIds == [DanglingSources -> IdArgs]
UBMats == [DanglingSources -> Mats \cup {Fault}]

processGraph ==
    /\ ~crashed
    /\ \E ub \in UBIds, ubv \in UBMats :
        LET r == processGraphRun(ub, ubv) IN
        IF r.crashed THEN Terminate
        ELSE /\ m_outputValues' = r.vals
             /\ m_image' = r.img
             /\ m_channelCount' = r.cc
             /\ UNCHANGED <<m_nodes, s_nextId, m_id, blendNode, kind, m_inputs, m_outputs, crashed>>

\* NodeGraph::clear deletes every node
clear ==
    /\ ~crashed
    /\ m_nodes' = <<>>
    /\ kind' = [n \in NodeIds |-> Freed]
    /\ m_inputs' = [n \in NodeIds |-> NoInputs]
    /\ m_outputs' = [n \in NodeIds |-> NoOutputs]
    /\ m_outputValues' = [n \in NodeIds |-> NoValues]
    /\ m_image' = [n \in NodeIds |-> EmptyMat]
    /\ m_channelCount' = [n \in NodeIds |-> 0]
    /\ UNCHANGED <<s_nextId, m_id, blendNode, crashed>>

\* connect and disconnect steps draw their ids and ports from the ranges an edge
\* can have; calls with any other argument are covered, argument by argument, by
\* the result operators the properties quantify over IdArgs and the port arguments
Next ==
    \/ AddNewNode(VariantAt(s_nextId))
    \/ \E node \in {NULL} \cup Range(m_nodes) : addNode(node)
    \/ \E nodeId \in IdArgs : removeNode(nodeId)
    \/ \E s \in NodeIds, o \in OutPorts, t \in NodeIds, i \in InPorts :
           connectNodes(s, o, t, i)
    \/ \E s \in NodeIds, o \in OutPorts, t \in NodeIds, i \in InPorts :
           disconnectNodes(s, o, t, i)
    \/ \E n \in NodeIds, image \in Mats : setImage(n, image)
    \/ processGraph
    \/ clear

Spec == Init /\ [][Next]_vars

\* the caller of processBrightnessContrast constructs a source, a filter and a
\* sink, in this order
ChainVariants == <<"InputNode", "BrightnessContrastNode", "OutputNode">>
ChainVariantAt(n) == ChainVariants[(n % Len(ChainVariants)) + 1]

NextChain ==
    \/ AddNewNode(ChainVariantAt(s_nextId))
    \/ \E node \in {NULL} \cup Range(m_nodes) : addNode(node)
    \/ \E nodeId \in IdArgs : removeNode(nodeId)
    \/ \E s \in NodeIds, o \in OutPorts, t \in NodeIds, i \in InPorts :
           connectNodes(s, o, t, i)
    \/ \E s \in NodeIds, o \in OutPorts, t \in NodeIds, i \in InPorts :
           disconnectNodes(s, o, t, i)
    \/ \E n \in NodeIds, image \in Mats : setImage(n, image)
    \/ processGraph
    \/ clear

SpecChain == Init /\ [][NextChain]_vars

\* ---------------------------------------------------------------- graph facts used by the properties
Owned == Range(m_nodes)

\* every edge recorded on an output side, on whatever port: <<S, o, T, i>>
OutputSideEdgesOf(outs, owned) ==
    UNION {{<<S, o, c[1], c[2]>> : c \in Range(outs[S][o])} : <<S, o>> \in owned \X OutPorts}

\* every edge recorded on an input side
InputSideEdgesOf(ins, owned) ==
    {<<ins[T][i][1], ins[T][i][2], T, i>> :
        <<T, i>> \in {x \in owned \X InPorts : ins[x[1]][x[2]][1] # NULL}}

OutputSideEdges == OutputSideEdgesOf(m_outputs, Owned)
InputSideEdges == InputSideEdgesOf(m_inputs, Owned)

\* the nodes a node feeds, over all recorded edges
Successors(n) == {e[3] : e \in {x \in OutputSideEdges : x[1] = n}}

RECURSIVE ReachableFrom(_)
ReachableFrom(S) ==
    LET S2 == S \cup UNION {Successors(x) : x \in S} IN
    IF S2 = S THEN S ELSE ReachableFrom(S2)

\* n can reach itself along a non-empty path of recorded edges
OnCycle(n) == n \in ReachableFrom(Successors(n))

\* position of node n in sequence s, 0 if absent
Pos(s, n) == IF n \in Range(s) THEN IndexOf(s, n) ELSE 0

\* ---------------------------------------------------------------- properties

\* C1: referential integrity. For all owned nodes S, T and ports o, i:
\* (T, i) is listed in S's output table for port o iff T's input table maps
\* port i to (S, o).
C1_ReferentialIntegrity ==
    \A S \in Owned, T \in Owned, o \in OutPorts, i \in InPorts :
        (<<T, i>> \in Range(m_outputs[S][o])) <=> (m_inputs[T][i] = <<S, o>>)

\* an edge between two owned nodes, recorded on both sides, survives in a
\* graph from which a node has been removed
C1_Witness ==
    /\ Len(m_nodes) < s_nextId
    /\ \E S \in Owned, T \in Owned, o \in OutPorts, i \in InPorts :
           /\ <<T, i>> \in Range(m_outputs[S][o])
           /\ m_inputs[T][i] = <<S, o>>

\* C2: acyclicity. The directed graph formed by all recorded output->input
\* edges of the owned nodes contains no cycle after any completed operation.
C2_Acyclic == \A n \in Owned : ~OnCycle(n)

\* C3: cycle rejection with rollback. A connectNodes call that passes the id,
\* range and occupancy checks and whose new edge would close a directed cycle
\* returns false and leaves every node's input and output tables as they were.
C3_CycleRejected ==
    \A s \in Owned, t \in Owned, o \in OutPortArgs, i \in InPortArgs :
        LET r == connectNodesResult(s, o, t, i) IN
        (/\ 0 <= o /\ o < getOutputCount(s)
         /\ 0 <= i /\ i < getInputCount(t)
         /\ getInputConnection(t, i)[1] = NULL
         /\ s \in ReachableFrom({t}))
            => (r.ret = FALSE /\ r.ins = m_inputs /\ r.outs = m_outputs)

\* the number of output-side entries, over all owned nodes and ports, that
\* name input port i of node T
RECURSIVE CountIn(_, _)
CountIn(seq, x) ==
    IF seq = <<>> THEN 0
    ELSE (IF Head(seq) = x THEN 1 ELSE 0) + CountIn(Tail(seq), x)

RECURSIVE SumOver(_, _, _)
SumOver(pairs, T, i) ==
    IF pairs = {} THEN 0
    ELSE LET p == CHOOSE q \in pairs : TRUE IN
         CountIn(m_outputs[p[1]][p[2]], <<T, i>>) + SumOver(pairs \ {p}, T, i)

SourcesOf(T, i) == SumOver(Owned \X OutPorts, T, i)

\* C4: occupancy. Every input port has at most one source, and connectNodes
\* to a target input port that already has a source returns false, reports
\* "Input already connected" and leaves every table entry as it was, whether
\* the new source is the same or a different node or output port.
C4_Occupancy ==
    /\ \A T \in Owned, i \in InPorts : SourcesOf(T, i) <= 1
    /\ \A s \in Owned, t \in Owned, o \in OutPortArgs, i \in InPortArgs :
           LET r == connectNodesResult(s, o, t, i) IN
           (/\ 0 <= o /\ o < getOutputCount(s)
            /\ 0 <= i /\ i < getInputCount(t)
            /\ getInputConnection(t, i)[1] # NULL)
               => /\ r.ret = FALSE
                  /\ r.diag = "connectNodes: Input already connected."
                  /\ r.ins = m_inputs
                  /\ r.outs = m_outputs

\* an occupied input port is refused to a second source and to its own source
C4_Witness ==
    \E s \in Owned, s2 \in Owned, t \in Owned, i \in InPorts :
        /\ s # s2
        /\ m_inputs[t][i][1] = s
        /\ SourcesOf(t, i) = 1
        /\ connectNodesResult(s2, 0, t, i).diag = "connectNodes: Input already connected."
        /\ connectNodesResult(s, m_inputs[t][i][2], t, i).ret = FALSE

\* C5: port-range rejection. connectNodes between owned nodes with outPort
\* outside [0, source.outputCount) or inPort outside [0, target.inputCount),
\* negative indices included, returns false, reports "Invalid output or input
\* index" and leaves the connection tables of every node unchanged.
C5_PortRange ==
    \A s \in Owned, t \in Owned, o \in OutPortArgs, i \in InPortArgs :
        LET r == connectNodesResult(s, o, t, i) IN
        (o \notin 0 .. (getOutputCount(s) - 1) \/ i \notin 0 .. (getInputCount(t) - 1))
            => /\ r.ret = FALSE
               /\ r.diag = "connectNodes: Invalid output or input index."
               /\ r.ins = m_inputs
               /\ r.outs = m_outputs

\* in a graph that holds an edge, a negative port, a port one past the
\* source's output count and an input port of a node without inputs are refused
C5_Witness ==
    /\ OutputSideEdges # {}
    /\ \E s \in Owned, t \in Owned :
           /\ getOutputCount(s) > 0 /\ getInputCount(t) > 0
           /\ connectNodesResult(s, -1, t, 0).ret = FALSE
           /\ connectNodesResult(s, getOutputCount(s), t, 0).ret = FALSE
           /\ connectNodesResult(s, 0, t, getInputCount(t)).ret = FALSE
           /\ connectNodesResult(s, 0, t, -1).ret = FALSE

\* C6: unknown ids. For an id the graph does not own (never added, or already
\* removed) getNode returns null and removeNode returns false; connectNodes
\* and disconnectNodes return false when either id is not owned; in each case
\* the node collection and all connection tables are unchanged.
C6_UnknownIds ==
    /\ \A id \in IdArgs \ Owned :
           LET r == removeNodeResult(id) IN
           /\ getNode(id) = NULL
           /\ ~containsNode(id)
           /\ r.ret = FALSE /\ r.nodes = m_nodes
           /\ r.ins = m_inputs /\ r.outs = m_outputs
    /\ \A s \in IdArgs, t \in IdArgs, o \in OutPortArgs, i \in InPortArgs :
           (s \notin Owned \/ t \notin Owned) =>
               LET c == connectNodesResult(s, o, t, i)
                   d == disconnectNodesResult(s, o, t, i)
               IN  /\ c.ret = FALSE /\ c.ins = m_inputs /\ c.outs = m_outputs
                   /\ d.ret = FALSE /\ d.ins = m_inputs /\ d.outs = m_outputs

\* the id of a removed node and an id never constructed are both refused by a
\* graph that still holds an edge
C6_Witness ==
    /\ OutputSideEdges # {}
    /\ \E id \in NodeIds :
           /\ id < s_nextId /\ id \notin Owned
           /\ removeNodeResult(id).diag = "removeNode: Node not found."
           /\ \E n \in Owned :
                  connectNodesResult(id, 0, n, 0).diag
                      = "connectNodes: Source or target node not found."
    /\ removeNodeResult(MaxNodes).ret = FALSE

\* C7: addNode rejects a null node and a node whose id is already owned
\* (returns false, node collection and node count unchanged); no two owned
\* nodes ever share an id.
C7_AddNode ==
    /\ addNodeResult(NULL).ret = FALSE
    /\ addNodeResult(NULL).nodes = m_nodes
    /\ \A n \in Owned : addNodeResult(n).ret = FALSE /\ addNodeResult(n).nodes = m_nodes
    /\ \A j \in 1 .. Len(m_nodes), k \in 1 .. Len(m_nodes) :
           m_nodes[j] = m_nodes[k] => j = k
    /\ getNodeCount = Cardinality(Owned)

\* a graph that has seen a node removed and owns two nodes refuses each of them
C7_Witness ==
    /\ Len(m_nodes) >= 2
    /\ Len(m_nodes) < s_nextId
    /\ \A n \in Owned : addNodeResult(n).diag = "addNode: Node already exists."

\* C8: cascading removal. A successful removeNode(id) leaves no surviving node
\* whose input table or output table references the removed node, and the
\* removed id is no longer owned.
C8_CascadingRemoval ==
    \A id \in Owned :
        LET r == removeNodeResult(id) IN
        /\ r.ret = TRUE
        /\ id \notin Range(r.nodes)
        /\ \A n \in Range(r.nodes) :
               /\ \A i \in InPorts : r.ins[n][i][1] # id
               /\ \A o \in OutPorts : \A c \in Range(r.outs[n][o]) : c[1] # id

\* a sequence respects the dependencies: every owned node feeding a connected
\* input of a member stands before that member, and for every output-side edge
\* S -> T between two members S stands before T
DependencyOrdered(result) ==
    /\ \A k \in 1 .. Len(result) :
           \A i \in 0 .. (getInputCount(result[k]) - 1) :
               LET source == getInputConnection(result[k], i)[1] IN
               source \in Owned => \E j \in 1 .. (k - 1) : result[j] = source
    /\ \A e \in OutputSideEdges :
           (e[1] \in Range(result) /\ e[3] \in Range(result))
               => Pos(result, e[1]) < Pos(result, e[3])

\* C9: dependency order. In the sequence getProcessingOrder returns, for every
\* edge S -> T between nodes that both appear S appears strictly before T, and
\* no node appears unless every node feeding one of its connected inputs
\* appears before it.
C9_DependencyOrder ==
    \A ub \in UBIds :
        LET run == getProcessingOrderRun(m_inputs, ub) IN
        ~run.thrown => DependencyOrdered(run.result)

\* the order places a node inserted later before the earlier-inserted node it feeds
C9_Witness ==
    /\ DanglingSources = {}
    /\ \E e \in OutputSideEdges :
           /\ Pos(m_nodes, e[1]) > Pos(m_nodes, e[3])
           /\ Pos(getProcessingOrder, e[1]) > 0
           /\ Pos(getProcessingOrder, e[1]) < Pos(getProcessingOrder, e[3])

\* a is a subsequence of b: its elements occur in b at increasing positions
IsSubsequence(a, b) ==
    /\ \A k \in 1 .. Len(a) : a[k] \in Range(b)
    /\ \A j \in 1 .. Len(a), k \in 1 .. Len(a) : j < k => Pos(b, a[j]) < Pos(b, a[k])

\* C10: within one processGraph run the process() calls form a subsequence of
\* the order computed by getProcessingOrder, so for every edge S -> T the call
\* T.process() comes only after S has had its turn in that run.
C10_SequentialInOrder ==
    \A ub \in UBIds, ubv \in UBMats :
        LET r == processGraphRun(ub, ubv) IN
        /\ IsSubsequence(r.calls, r.order)
        /\ \A k \in 1 .. Len(r.calls) :
               \A e \in {x \in OutputSideEdges : x[3] = r.calls[k]} :
                   /\ Pos(r.order, e[1]) > 0
                   /\ Pos(r.order, e[1]) < Pos(r.order, r.calls[k])

\* a run calls process() on a node inserted later and then on the
\* earlier-inserted node it feeds
C10_Witness ==
    /\ DanglingSources = {}
    /\ LET r == processGraphRun(NoUB, NoUB) IN
       \E j \in 1 .. Len(r.calls), k \in 1 .. Len(r.calls) :
           /\ j < k
           /\ Pos(m_nodes, r.calls[j]) > Pos(m_nodes, r.calls[k])
           /\ \E e \in OutputSideEdges : e[1] = r.calls[j] /\ e[3] = r.calls[k]

\* the chains A -> B -> C of the owned nodes: A has no input and one output,
\* B one input and one output, C one input and no output, and the edges
\* A.0 -> B.0 and B.0 -> C.0 are recorded on both sides
Chains ==
    {c \in Owned \X Owned \X Owned :
        /\ getInputCount(c[1]) = 0 /\ getOutputCount(c[1]) = 1
        /\ getInputCount(c[2]) = 1 /\ getOutputCount(c[2]) = 1
        /\ getInputCount(c[3]) = 1 /\ getOutputCount(c[3]) = 0
        /\ <<c[1], 0, c[2], 0>> \in OutputSideEdges \cap InputSideEdges
        /\ <<c[2], 0, c[3], 0>> \in OutputSideEdges \cap InputSideEdges}

\* C11 as stated: in a chain A -> B -> C whose entry node A was never made
\* ready, a processGraph run invokes process() on neither B nor C.
C11_ChainSkipped ==
    \A c \in Chains :
        ~isReady(c[1]) =>
            \A ub \in UBIds, ubv \in UBMats :
                LET r == processGraphRun(ub, ubv) IN
                c[2] \notin Range(r.calls) /\ c[3] \notin Range(r.calls)

\* C11 amended: in a chain A -> B -> C whose entry node A was never made
\* ready, a processGraph run skips A only: process() is not invoked on A and
\* is invoked on B and on C, A before B before C in the order, and B, which
\* reads the empty output of A, leaves its cached output values as they were.
C11_ChainOnlyEntrySkipped ==
    \A c \in Chains :
        ~isReady(c[1]) =>
            \A ub \in UBIds, ubv \in UBMats :
                LET r == processGraphRun(ub, ubv) IN
                ~r.crashed =>
                    /\ c[1] \notin Range(r.calls)
                    /\ c[1] \in Range(r.order)
                    /\ IsSubsequence(<<c[2], c[3]>>, r.calls)
                    /\ IsSubsequence(<<c[1], c[2], c[3]>>, r.order)
                    /\ r.vals[c[2]] = m_outputValues[c[2]]

\* a chain whose entry node holds no image, in a graph that has been processed
\* to completion
C11_Witness ==
    /\ \E c \in Chains : ~isReady(c[1]) /\ m_image[c[1]] = EmptyMat
    /\ DanglingSources = {}
    /\ processGraphRun(NoUB, NoUB).crashed = FALSE
    /\ Len(processGraphRun(NoUB, NoUB).calls) = 2

\* the value a ready consumer of kind BrightnessContrastNode or OutputNode
\* publishes (output 0, respectively the stored image) in the state st of a run
Published(st, t) == IF kind[t] = "OutputNode" THEN st.img[t] ELSE st.vals[t][0]

\* C12: permissive readiness. In a processGraph run that returns, every node
\* of the order that is ready has process() invoked, also after a node that
\* was skipped; a skipped node has no process() call and its cached output
\* values after the run are those before it; a ready BrightnessContrastNode
\* or OutputNode fed by a skipped node reads that cached value: it publishes
\* it if it is non-empty and keeps what it had if it is empty.
C12_PermissiveReadiness ==
    \A ub \in UBIds, ubv \in UBMats :
        LET r == processGraphRun(ub, ubv) IN
        ~r.crashed =>
            \A k \in 1 .. Len(r.order) :
                LET n == r.order[k] IN
                /\ isReady(n) => n \in Range(r.calls)
                /\ ~isReady(n) =>
                       /\ n \notin Range(r.calls)
                       /\ r.vals[n] = m_outputValues[n]
                       /\ \A e \in {x \in InputSideEdges : x[1] = n} :
                              (/\ isReady(e[3])
                               /\ kind[e[3]] \in {"BrightnessContrastNode", "OutputNode"})
                                  => Published(r, e[3]) =
                                         IF getOutputValue(n, e[2]) # EmptyMat
                                         THEN getOutputValue(n, e[2])
                                         ELSE Published([vals |-> m_outputValues,
                                                         img |-> m_image], e[3])

\* a skipped node holding a stale non-empty output stands in the order before
\* a ready consumer, which is processed and publishes the stale value in place
\* of the empty one it held
C12_Witness ==
    /\ DanglingSources = {}
    /\ LET r == processGraphRun(NoUB, NoUB) IN
       /\ ~r.crashed
       /\ \E e \in InputSideEdges :
              /\ e[1] \in Range(r.order) /\ ~isReady(e[1])
              /\ getOutputValue(e[1], e[2]) # EmptyMat
              /\ kind[e[3]] = "BrightnessContrastNode"
              /\ e[3] \in Range(r.calls)
              /\ Pos(r.order, e[1]) < Pos(r.order, e[3])
              /\ m_outputValues[e[3]][0] = EmptyMat
              /\ r.vals[e[3]][0] = getOutputValue(e[1], e[2])

\* ---------------------------------------------------------------- direct calls on nodes
\* number of nodes constructed by a caller that drives the nodes directly
MaxDirect == 2

\* new K(...) of any variant followed by addNode of the new node
AddNewNodeOf(k) ==
    /\ s_nextId < MaxDirect
    /\ AddNewNode(k)

\* the state a process() call outside of processGraph starts from
NodeState == [vals |-> m_outputValues, img |-> m_image, cc |-> m_channelCount,
              calls |-> <<>>, crashed |-> FALSE]

\* node->process() called directly by the owner of the graph, ready or not
callProcess(n) ==
    /\ ~crashed
    /\ containsNode(n)
    /\ \E ubv \in UBMats :
           LET ps == process(NodeState, n, ubv) IN
           IF ps.crashed THEN Terminate
           ELSE /\ m_outputValues' = ps.vals
                /\ m_image' = ps.img
                /\ m_channelCount' = ps.cc
                /\ UNCHANGED <<m_nodes, s_nextId, m_id, blendNode, kind, m_inputs, m_outputs, crashed>>

\* the ids of the nodes such a caller constructs
DirectIds == 0 .. (MaxDirect - 1)

NextDirect ==
    \/ \E k \in Kinds : AddNewNodeOf(k)
    \/ \E s \in DirectIds, o \in OutPorts, t \in DirectIds, i \in InPorts :
           connectNodes(s, o, t, i)
    \/ \E s \in DirectIds, o \in OutPorts, t \in DirectIds, i \in InPorts :
           disconnectNodes(s, o, t, i)
    \/ \E n \in DirectIds, image \in Mats : setImage(n, image)
    \/ \E n \in DirectIds : callProcess(n)

SpecDirect == Init /\ [][NextDirect]_vars

\* ---------------------------------------------------------------- a BlendNode driven directly
\* BlendNode::BlendNode(name, blendMode, alpha), its two inputs holding samples;
\* the mode defaults to NORMAL
BlendNodeCtor(blendMode, alpha, image1, image2) ==
    [m_blendMode |-> blendMode, m_alpha |-> validateAlpha(alpha),
     inputImage1 |-> image1, inputImage2 |-> image2, outputImage |-> NoPixel]

InitBlend ==
    /\ m_nodes = <<>>
    /\ s_nextId = 0
    /\ m_id = <<>>
    /\ kind = [n \in NodeIds |-> Freed]
    /\ m_inputs = [n \in NodeIds |-> NoInputs]
    /\ m_outputs = [n \in NodeIds |-> NoOutputs]
    /\ m_outputValues = [n \in NodeIds |-> NoValues]
    /\ m_image = [n \in NodeIds |-> EmptyMat]
    /\ m_channelCount = [n \in NodeIds |-> 0]
    /\ crashed = FALSE
    /\ \E alpha \in -1 .. (AlphaDen + 1), image1 \in Pixels, image2 \in Pixels :
           blendNode = BlendNodeCtor("NORMAL", alpha, image1, image2)

graphVars == <<m_nodes, s_nextId, m_id, kind, m_inputs, m_outputs, m_outputValues,
               m_image, m_channelCount, crashed>>

setBlendMode(blendMode) ==
    /\ blendNode' = [blendNode EXCEPT !.m_blendMode = blendMode]
    /\ UNCHANGED graphVars

setAlpha(alpha) ==
    /\ blendNode' = [blendNode EXCEPT !.m_alpha = validateAlpha(alpha)]
    /\ UNCHANGED graphVars

\* BlendNode::process on the pixel-level node
BlendNodeProcessCall ==
    /\ \E outputImage \in BlendNodeProcessPixel(blendNode) :
           blendNode' = [blendNode EXCEPT !.outputImage = outputImage]
    /\ UNCHANGED graphVars

NextBlend ==
    \/ \E blendMode \in BlendModes : setBlendMode(blendMode)
    \/ \E alpha \in -1 .. (AlphaDen + 1) : setAlpha(alpha)
    \/ BlendNodeProcessCall

SpecBlend == InitBlend /\ [][NextBlend]_vars

\* NodeGraph::getInputNodes: the owned nodes that dynamic_cast to InputNode
getInputNodes == SelectSeq(m_nodes, LAMBDA n : kind[n] = "InputNode")

\* NodeGraph::getOutputNodes: the owned nodes that dynamic_cast to OutputNode
getOutputNodes == SelectSeq(m_nodes, LAMBDA n : kind[n] = "OutputNode")

\* NodeGraph::validateGraph
validateGraph ==
    IF containsCycles THEN FALSE
    ELSE \A k \in 1 .. Len(m_nodes) :
             \A i \in 0 .. (getInputCount(m_nodes[k]) - 1) :
                 getInputConnection(m_nodes[k], i)[1] # NULL

\* C13: validateGraph() returns true if and only if the recorded edges of the
\* owned nodes contain no directed cycle and every input port in
\* [0, inputCount) of every owned node has a connected source; it is true for
\* the empty graph and does not depend on isReady() (an InputNode without an
\* image does not make it false).
C13_ValidateGraph ==
    /\ validateGraph <=>
           /\ \A n \in Owned : ~OnCycle(n)
           /\ \A n \in Owned : \A i \in 0 .. (getInputCount(n) - 1) :
                  m_inputs[n][i][1] # NULL
    /\ m_nodes = <<>> => validateGraph

\* C14: disconnectNodes(s, o, t, i) returns true exactly when both ids are
\* owned and the edge (s, o) -> (t, i) is recorded; on true that edge, and
\* nothing else, is removed from s's output table and from t's input table;
\* on false no table changes.
C14_Disconnect ==
    LET outEdges == OutputSideEdges
        inEdges == InputSideEdges
    IN  \A s \in IdArgs, t \in IdArgs, o \in OutPortArgs, i \in InPortArgs :
            LET d == disconnectNodesResult(s, o, t, i)
                e == <<s, o, t, i>>
            IN  IF s \in Owned /\ t \in Owned /\ e \in outEdges
                THEN /\ d.ret
                     /\ e \in inEdges
                     /\ OutputSideEdgesOf(d.outs, Owned) = outEdges \ {e}
                     /\ InputSideEdgesOf(d.ins, Owned) = inEdges \ {e}
                     /\ \A n \in NodeIds, p \in OutPorts :
                            <<n, p>> # <<s, o>> => d.outs[n][p] = m_outputs[n][p]
                     /\ \A n \in NodeIds, p \in InPorts :
                            <<n, p>> # <<t, i>> => d.ins[n][p] = m_inputs[n][p]
                ELSE /\ ~d.ret
                     /\ d.ins = m_inputs
                     /\ d.outs = m_outputs

\* an output port fans out to two targets: the edge to the first is removed by
\* the call that names it and the other edge stays; a call naming the right
\* endpoints and another output port is refused, and so is the reversed edge
C14_Witness ==
    \E s \in Owned, t \in Owned, t2 \in Owned, o \in OutPorts, i \in InPorts :
        /\ t # t2
        /\ Len(m_outputs[s][o]) = 2
        /\ m_outputs[s][o][1] = <<t, i>>
        /\ m_outputs[s][o][2][1] = t2
        /\ disconnectNodesResult(s, o, t, i).ret
        /\ disconnectNodesResult(s, o, t, i).outs[s][o] = <<m_outputs[s][o][2]>>
        /\ \E o2 \in OutPorts \ {o} : ~disconnectNodesResult(s, o2, t, i).ret
        /\ ~disconnectNodesResult(t, 0, s, 0).ret

\* C15: round trip. For every recorded edge (s, o) -> (t, i) between owned
\* nodes, disconnectNodes(s, o, t, i) followed immediately by
\* connectNodes(s, o, t, i) both succeed, and afterwards getInputConnection on
\* every node and input port and getConnectedNodes on every node and output
\* port return what they returned before the two calls.
C15_RoundTrip ==
    \A e \in {x \in OutputSideEdges : x[3] \in Owned} :
        LET d == disconnectNodesResult(e[1], e[2], e[3], e[4])
            c == connectNodesIn(d.ins, d.outs, e[1], e[2], e[3], e[4])
        IN  /\ d.ret
            /\ c.ret
            /\ \A n \in Owned, i \in InPortArgs :
                   getInputConnectionIn(c.ins, n, i) = getInputConnection(n, i)
            /\ \A n \in Owned, o \in OutPortArgs :
                   getConnectedNodesIn(c.outs, n, o) = getConnectedNodes(n, o)

\* BaseNode::getId of the k-th node constructed in the process
getId(k) == m_id[k]

\* C16: node identity. Every node constructed receives an id different from
\* the id of every node constructed before it, destroyed nodes included, so
\* the id of a removed node is never assigned again; and no operation changes
\* the id a node received at construction for as long as the process runs.
C16_NodeIdentity ==
    /\ [](/\ \A j \in 1 .. Len(m_id), k \in 1 .. Len(m_id) :
                 j # k => getId(j) # getId(k)
          /\ Owned \subseteq Range(m_id))
    /\ [][crashed' \/ (/\ Len(m_id') >= Len(m_id)
                       /\ \A k \in 1 .. Len(m_id) : m_id'[k] = getId(k))]_vars

\* a node constructed earlier has been destroyed, the node constructed last is
\* owned and connected
C16_Witness ==
    /\ Len(m_id) = MaxNodes
    /\ \E k \in 1 .. (Len(m_id) - 1) : getId(k) \notin Owned
    /\ getId(Len(m_id)) \in Owned
    /\ \E e \in OutputSideEdges \cap InputSideEdges : getId(Len(m_id)) \in {e[1], e[3]}

\* C17: getOutputValue(port) returns the value last stored for that port by
\* the node's process() and returns the empty value when the port was never
\* written or the index is out of range (negative or >= outputCount).
C17_GetOutputValue ==
    \A n \in Owned, o \in OutPortArgs :
        /\ (0 <= o /\ o < getOutputCount(n)) => getOutputValue(n, o) = m_outputValues[n][o]
        /\ (o < 0 \/ o >= getOutputCount(n)) => getOutputValue(n, o) = EmptyMat

\* C18: defensive process(). For every node variant, process() called while
\* the node's isReady() is false returns normally and leaves the output values
\* of every node, the stored image of an OutputNode and the channel count of a
\* ChannelSplitterNode as they were.
C18_DefensiveProcess ==
    \A n \in Owned :
        ~isReady(n) =>
            \A ubv \in UBMats :
                LET ps == process(NodeState, n, ubv) IN
                /\ ~ps.crashed
                /\ ps.vals = m_outputValues
                /\ ps.img = m_image
                /\ ps.cc = m_channelCount

\* an OutputNode that stored an image has lost its input connection, and
\* process() called on it keeps the image
C18_Witness ==
    \E n \in Owned :
        /\ kind[n] = "OutputNode" /\ ~isReady(n) /\ m_image[n] # EmptyMat
        /\ process(NodeState, n, NoUB).img[n] = m_image[n]

\* C19: getInputNodes() returns exactly the owned nodes without inputs (the
\* graph entries) and getOutputNodes() exactly the owned nodes without outputs
\* (the graph sinks), each once, whatever the connections are.
C19_EntryAndSinkNodes ==
    /\ Range(getInputNodes) = {n \in Owned : getInputCount(n) = 0}
    /\ Range(getOutputNodes) = {n \in Owned : getOutputCount(n) = 0}
    /\ Len(getInputNodes) = Cardinality(Range(getInputNodes))
    /\ Len(getOutputNodes) = Cardinality(Range(getOutputNodes))

\* C20: when both inputs are non-empty, BlendNode::process stores on output 0
\* the result of the blend function of the currently selected mode applied to
\* the two inputs and alpha: every step that stores an output under mode M
\* stores a value apply_M(input1, input2, alpha) can produce.
C20_BlendModeApplied ==
    [][(/\ blendNode'.m_blendMode = blendNode.m_blendMode
        /\ blendNode'.m_alpha = blendNode.m_alpha
        /\ blendNode'.outputImage # blendNode.outputImage)
          => blendNode'.outputImage \in
                 applyBlendMode(blendNode.m_blendMode, blendNode.inputImage1,
                                blendNode.inputImage2, blendNode.m_alpha)]_vars

\* s without the occurrences of x, the other elements in their order
Without(s, x) == SelectSeq(s, LAMBDA y : y # x)

\* the edges of a set that do not touch node id
NotTouching(edges, id) == {e \in edges : e[1] # id /\ e[3] # id}

\* C21, the tables and the node list: a successful connectNodes(s, o, t, i)
\* appends (t, i) to s's output port o, where it then stands once, sets t's
\* input i to (s, o) and changes nothing else; a successful disconnectNodes
\* removes that entry and that input and changes nothing else; a successful
\* removeNode(id) takes id out of the node list, one node fewer and the others
\* in their order, and leaves exactly the edges that do not touch id, on both
\* sides, the fan-out vectors of the other nodes in their order.
C21_FrameOfTables ==
    /\ \A s \in IdArgs, t \in IdArgs, o \in OutPortArgs, i \in InPortArgs :
           LET c == connectNodesResult(s, o, t, i)
               d == disconnectNodesResult(s, o, t, i)
           IN  /\ c.ret =>
                      /\ c.outs = [m_outputs EXCEPT ![s][o] = Append(@, <<t, i>>)]
                      /\ c.ins = [m_inputs EXCEPT ![t][i] = <<s, o>>]
                      /\ CountIn(c.outs[s][o], <<t, i>>) = 1
               /\ d.ret =>
                      /\ d.outs = [m_outputs EXCEPT ![s][o] = Without(@, <<t, i>>)]
                      /\ Len(d.outs[s][o]) = Len(m_outputs[s][o]) - 1
                      /\ d.ins = [m_inputs EXCEPT ![t][i] = NoConnection]
    /\ \A id \in Owned :
           LET r == removeNodeResult(id) IN
           r.ret =>
               /\ r.nodes = Without(m_nodes, id)
               /\ Len(r.nodes) = Len(m_nodes) - 1
               /\ OutputSideEdgesOf(r.outs, Range(r.nodes))
                      = NotTouching(OutputSideEdges, id)
               /\ InputSideEdgesOf(r.ins, Range(r.nodes))
                      = NotTouching(InputSideEdges, id)
               /\ \A n \in Range(r.nodes), o \in OutPorts :
                      r.outs[n][o] = SelectSeq(m_outputs[n][o], LAMBDA c : c[1] # id)

\* C21, the rest of the state: a step that changes a connection table or
\* removes one node changes no cached output value of a node that is owned
\* after it, and a step that changes a connection table and keeps the number
\* of nodes keeps the node list.
C21_FrameOfValues ==
    (tables' # tables \/ Len(m_nodes') = Len(m_nodes) - 1)
        => \/ crashed'
           \/ /\ \A n \in Range(m_nodes') : m_outputValues'[n] = m_outputValues[n]
              /\ Len(m_nodes') = Len(m_nodes) => m_nodes' = m_nodes

\* C21: frame of successful mutations. A successful connectNodes adds exactly
\* its edge, once, to the source's output table and the target's input table,
\* a successful disconnectNodes removes exactly its edge, a successful
\* removeNode removes exactly its node and the edges touching it and lowers the
\* node count by one; every other edge, the cached output values of the
\* surviving nodes and the order of the remaining owned nodes are unchanged.
C21_Frame == []C21_FrameOfTables /\ [][C21_FrameOfValues]_vars

\* the orders in which the owned nodes can stand in m_nodes
InsertionOrders ==
    {p \in [1 .. Len(m_nodes) -> Owned] : \A j, k \in 1 .. Len(m_nodes) : p[j] = p[k] => j = k}

\* n can reach itself along a non-empty path of the edges
RECURSIVE ReachableIn(_, _)
ReachableIn(edges, S) ==
    LET S2 == S \cup {e[3] : e \in {x \in edges : x[1] \in S}} IN
    IF S2 = S THEN S ELSE ReachableIn(edges, S2)

OnCycleIn(edges, n) == n \in ReachableIn(edges, {e[3] : e \in {x \in edges : x[1] = n}})

\* C22: cycle detector correctness. On the recorded edges, and on the recorded
\* edges with one more edge between owned nodes added by the node-level
\* connectOutput (which makes no cycle check), containsCycles() is true iff
\* some owned node reaches itself along a non-empty path of edges between owned
\* nodes, in whatever order the owned nodes stand in m_nodes.
C22_CycleDetector ==
    \A s \in Owned, t \in Owned, o \in OutPorts, i \in InPorts :
        \A outs \in {m_outputs, connectOutput(m_inputs, m_outputs, s, o, t, i).outs} :
            LET edges == {e \in OutputSideEdgesOf(outs, Owned) : e[3] \in Owned} IN
            \A nodes \in InsertionOrders :
                containsCyclesRun(nodes, outs).found
                    <=> \E n \in Owned : OnCycleIn(edges, n)

\* the owned nodes that are on a cycle of recorded edges or can be reached from
\* a node on one
CycleTainted ==
    LET edges == {e \in OutputSideEdges : e[3] \in Owned} IN
    ReachableIn(edges, {n \in Owned : OnCycleIn(edges, n)})

\* C23: coverage of the processing order. getProcessingOrder returns a
\* sequence without duplicates that holds exactly the owned nodes that are
\* neither on a cycle nor downstream of one: every owned node when the graph
\* is acyclic, nodes with unconnected input ports included.
C23_OrderCoverage ==
    \A ub \in UBIds :
        LET run == getProcessingOrderRun(m_inputs, ub) IN
        /\ ~run.thrown
        /\ \A j \in 1 .. Len(run.result), k \in 1 .. Len(run.result) :
               run.result[j] = run.result[k] => j = k
        /\ Range(run.result) = Owned \ CycleTainted
        /\ (\A n \in Owned : ~OnCycle(n)) => Len(run.result) = Len(m_nodes)

\* the processGraph run that follows a run r with no call in between
nextRun(r, ubv) ==
    LET ps == processAll([vals |-> r.vals, img |-> r.img, cc |-> r.cc, calls |-> <<>>,
                          crashed |-> FALSE], r.order, 1, ubv) IN
    [crashed |-> ps.crashed, order |-> r.order, calls |-> ps.calls,
     vals |-> ps.vals, img |-> ps.img, cc |-> ps.cc]

\* C24: in one processGraph run no node has process() invoked twice; every
\* call is on a node of the computed order that is ready; every ready node of
\* the order whose turn comes (all of them when the run returns, those up to
\* the faulting call when the process is terminated) has process() invoked;
\* and the run that follows a run that returned makes the same calls again.
C24_OncePerRun ==
    \A ub \in UBIds, ubv \in UBMats :
        LET r == processGraphRun(ub, ubv) IN
        /\ \A j \in 1 .. Len(r.calls), k \in 1 .. Len(r.calls) :
               r.calls[j] = r.calls[k] => j = k
        /\ \A n \in Range(r.calls) : n \in Range(r.order) /\ isReady(n)
        /\ \A k \in 1 .. Len(r.order) :
               (/\ isReady(r.order[k])
                /\ r.crashed => k <= Pos(r.order, r.calls[Len(r.calls)]))
                   => r.order[k] \in Range(r.calls)
        /\ ~r.crashed =>
               \A ubv2 \in UBMats :
                   LET r2 == nextRun(r, ubv2) IN
                   ~r2.crashed => r2.calls = r.calls

\* a graph that was processed before: the run changes no value, skips a node
\* that is not ready and still invokes process() on two ready nodes
C24_Witness ==
    /\ DanglingSources = {}
    /\ LET r == processGraphRun(NoUB, NoUB) IN
       /\ ~r.crashed
       /\ r.vals = m_outputValues /\ r.img = m_image /\ r.cc = m_channelCount
       /\ Len(r.calls) = 2
       /\ Len(r.order) = 3
       /\ \E n \in Range(r.calls) : m_outputValues[n][0] # EmptyMat
       /\ nextRun(r, NoUB).calls = r.calls

\* C25: fan-out. (a) A connectNodes call with owned ids, ports in range and a
\* free target input whose edge closes no cycle returns true, whatever
\* targets its source output port already has: those are never a reason to
\* refuse. (b) One output port feeds two different input ports of one target
\* node: both calls return true and the port lists both. (c) disconnectNodes
\* of one of several edges leaving an output port returns true and leaves the
\* other entries of that port, in their order, and the inputs they name as
\* they were.
C25_FanOut ==
    /\ LET recorded == {e \in OutputSideEdges : e[3] \in Owned} IN
       \A s \in Owned, t \in Owned :
           \A o \in 0 .. (getOutputCount(s) - 1), i \in 0 .. (getInputCount(t) - 1) :
               (/\ getInputConnection(t, i)[1] = NULL
                /\ ~\E n \in Owned : OnCycleIn(recorded \cup {<<s, o, t, i>>}, n))
                   => connectNodesResult(s, o, t, i).ret
    /\ \A s \in Owned, t \in Owned, o \in OutPorts, i1 \in InPorts, i2 \in InPorts :
           (/\ s # t /\ i1 # i2
            /\ o < getOutputCount(s)
            /\ i1 < getInputCount(t) /\ i2 < getInputCount(t)
            /\ getInputConnection(t, i1)[1] = NULL
            /\ getInputConnection(t, i2)[1] = NULL
            /\ s \notin ReachableFrom({t}))
               => LET c1 == connectNodesResult(s, o, t, i1)
                      c2 == connectNodesIn(c1.ins, c1.outs, s, o, t, i2)
                  IN  /\ c1.ret /\ c2.ret
                      /\ c2.outs[s][o] = m_outputs[s][o] \o <<<<t, i1>>, <<t, i2>>>>
                      /\ c2.ins[t][i1] = <<s, o>> /\ c2.ins[t][i2] = <<s, o>>
    /\ \A s \in Owned, o \in OutPorts :
           Len(m_outputs[s][o]) >= 2 =>
               \A k \in 1 .. Len(m_outputs[s][o]) :
                   LET t == m_outputs[s][o][k][1]
                       i == m_outputs[s][o][k][2]
                       d == disconnectNodesResult(s, o, t, i)
                   IN  t \in Owned =>
                           /\ d.ret
                           /\ d.outs[s][o] = RemoveAt(m_outputs[s][o], k)
                           /\ \A j \in 1 .. Len(m_outputs[s][o]) :
                                  j # k => LET c == m_outputs[s][o][j] IN
                                           /\ c \in Range(d.outs[s][o])
                                           /\ d.ins[c[1]][c[2]] = <<s, o>>

\* output 0 of a node feeds both inputs of a BlendNode; a further input of the
\* BlendNode would be accepted from the same port, and disconnecting the first
\* edge leaves the second
C25_Witness ==
    \E s \in Owned, t \in Owned :
        /\ kind[t] = "BlendNode"
        /\ m_outputs[s][0] = <<<<t, 0>>, <<t, 1>>>>
        /\ m_inputs[t][0] = <<s, 0>> /\ m_inputs[t][1] = <<s, 0>>
        /\ LET d == disconnectNodesResult(s, 0, t, 0) IN
           /\ d.ret
           /\ d.outs[s][0] = <<<<t, 1>>>>
           /\ d.ins[t][1] = <<s, 0>>
           /\ connectNodesIn(d.ins, d.outs, s, 0, t, 0).ret

\* InputNode::setImage(image) on node a between two runs, seen from the
\* state r a run has left: the image is stored and published on output 0
afterSetImage(r, a, image) == [r EXCEPT !.img[a] = image, !.vals[a][0] = image]

\* C26: one-pass propagation. In a graph for which validateGraph() is true
\* and whose InputNodes all hold an image, one processGraph() returns and
\* leaves output 0 of every node that has outputs non-empty and an image in
\* every OutputNode; and after an InputNode is given another image, one more
\* processGraph() brings every node up to date: every OutputNode holds what
\* its source publishes and a further run changes nothing.
C26_OnePass ==
    (/\ validateGraph
     /\ \A n \in Owned : kind[n] = "InputNode" => m_image[n] # EmptyMat)
        => \A ub \in UBIds, ubv \in UBMats :
               LET r == processGraphRun(ub, ubv) IN
               /\ ~r.crashed
               /\ \A n \in Owned :
                      /\ getOutputCount(n) > 0 => r.vals[n][0] # EmptyMat
                      /\ kind[n] = "OutputNode" => r.img[n] # EmptyMat
               /\ \A a \in Owned, image \in Mats \ {EmptyMat} :
                      kind[a] = "InputNode" =>
                          LET r2 == nextRun(afterSetImage(r, a, image), ubv)
                              r3 == nextRun(r2, ubv)
                          IN  /\ ~r2.crashed
                              /\ r3.vals = r2.vals /\ r3.img = r2.img
                              /\ \A n \in Owned :
                                     kind[n] = "OutputNode" =>
                                         r2.img[n] = getOutputValueIn(r2.vals,
                                                         getInputConnection(n, 0)[1],
                                                         getInputConnection(n, 0)[2])

\* C27: edge ports stay in range. Every edge (S, o) -> (T, i) recorded between
\* owned nodes, on the output side or on the input side, has
\* 0 <= o < S.getOutputCount() and 0 <= i < T.getInputCount() for the port
\* counts of the current state.
C27_EdgePortsInRange ==
    \A e \in {x \in OutputSideEdges \cup InputSideEdges : x[1] \in Owned /\ x[3] \in Owned} :
        /\ 0 <= e[2] /\ e[2] < getOutputCount(e[1])
        /\ 0 <= e[4] /\ e[4] < getInputCount(e[3])

\* C28: self-connection. For every owned node n and every output port o and
\* input port i of n in range, connectNodes(n, o, n, i) returns false and
\* leaves all connection tables unchanged; when input i is free the node-level
\* connectOutput accepts that edge and connectNodes reports the cycle; and no
\* owned node is recorded as the source of one of its own inputs.
C28_SelfConnection ==
    /\ \A n \in Owned :
           \A o \in 0 .. (getOutputCount(n) - 1), i \in 0 .. (getInputCount(n) - 1) :
               LET c == connectNodesResult(n, o, n, i) IN
               /\ c.ret = FALSE
               /\ c.ins = m_inputs /\ c.outs = m_outputs
               /\ getInputConnection(n, i)[1] = NULL =>
                      /\ connectOutput(m_inputs, m_outputs, n, o, n, i).ret
                      /\ c.diag = "connectNodes: Cannot create cycle in the graph."
    /\ \A n \in Owned, i \in InPorts :
           /\ m_inputs[n][i][1] # n
           /\ \A o \in OutPorts : <<n, i>> \notin Range(m_outputs[n][o])

\* a node that already feeds another node and has a free input: the node-level
\* connect would record the self-edge, the graph-level call refuses it
C28_Witness ==
    \E n \in Owned :
        /\ getInputCount(n) > 0 /\ getOutputCount(n) > 0
        /\ m_outputs[n][0] # <<>>
        /\ getInputConnection(n, 0)[1] = NULL
        /\ connectOutput(m_inputs, m_outputs, n, 0, n, 0).ins[n][0] = <<n, 0>>
        /\ connectNodesResult(n, 0, n, 0).diag
               = "connectNodes: Cannot create cycle in the graph."
        /\ connectNodesResult(n, 0, n, 0).outs = m_outputs

\* C29: deterministic order. Two getProcessingOrder calls on the same graph
\* return, and return the same sequence, and when the insertion order of the
\* nodes respects the dependencies the sequence is the insertion order.
\* (getProcessingOrder is a const member function that writes only its local
\* result and processedNodes.)
C29_DeterministicOrder ==
    \A ub1 \in UBIds, ub2 \in UBIds :
        LET run1 == getProcessingOrderRun(m_inputs, ub1)
            run2 == getProcessingOrderRun(m_inputs, ub2)
        IN  /\ ~run1.thrown
            /\ run1.result = run2.result
            /\ DependencyOrdered(m_nodes) => run1.result = m_nodes

\* the connection tables of the state, and those with one more edge between
\* owned nodes recorded by the node-level connectOutput
TablesWithOneMoreEdge ==
    {[ins |-> m_inputs, outs |-> m_outputs]}
        \cup {[ins |-> c.ins, outs |-> c.outs] :
                c \in {connectOutput(m_inputs, m_outputs, x[1], x[2], x[3], x[4]) :
                          x \in Owned \X OutPorts \X Owned \X InPorts}}

====
